---- MODULE Spec2Model ----
(***************************************************************************)
(* Model of the avchopper / avtoolkit family of ffmpeg wrappers.           *)
(*                                                                         *)
(* Part 1: avtoolkit.util.tempdir, the decorator that gives an operation   *)
(*         a scratch directory and removes it afterwards.  Several caller  *)
(*         threads invoke wrapped operations; every statement of the       *)
(*         wrapper that touches the filesystem is one step.                *)
(* Part 2: the Video handle of the four library revisions (chopper,        *)
(*         ffchopper, avchopper, avtoolkit): construction and the lazily   *)
(*         cached `data` property.                                         *)
(* Part 3: the media operations (ffmpeg, split, reencode, overlay,         *)
(*         concatenate, insert).  One caller runs one operation at a time; *)
(*         an operation is one step, its points of failure are chosen      *)
(*         inside the step, and `last` keeps what it did in order.         *)
(* Part 4: chains of chainable operations and their intermediate files.    *)
(***************************************************************************)
EXTENDS Integers, FiniteSets, Sequences, TLC

----------------------------------------------------------------------------
(* Bounds *)

MaxThreads == 2
MaxTempNames == 2
MaxCallerDirs == 1
MaxVals == 1
MaxCalls == 2
MaxPaths == 3
MaxCtorPaths == 2
MaxVideos == 1
MaxReads == 2
MaxProcs == 3
MaxDur == 2
MaxOffset == 1
MaxLinks == 3
MaxInter == 3

Threads == 1..MaxThreads
TempDirs == {<<"tmp", n>> : n \in 1..MaxTempNames}
CallerDirs == {<<"caller", n>> : n \in 1..MaxCallerDirs}
AllDirs == TempDirs \cup CallerDirs
NoDir == <<"none", 0>>

\* The scratch file a wrapped operation writes into its directory
\* (concatenate: os.path.join(tmpdir, "files.txt")).
FileNames == {"files.txt"}
RetVals == 1..MaxVals
PathNames == 1..MaxPaths

----------------------------------------------------------------------------
(* Part 1: the tempdir wrapper *)

VARIABLES
    dirs,       \* directories that exist on the filesystem
    files,      \* files[d]: the entries inside directory d
    owner,      \* owner[d]: the thread whose mkdtemp made the directory now at d
    inv,        \* inv[t]: the wrapped call thread t is executing
    calls       \* number of wrapped calls started so far

tvars == <<dirs, files, owner, inv, calls>>

VARIABLES
    mediaFiles, \* names (relative to the working directory) at which a file exists
    videos,     \* the Video handles constructed so far
    ctor,       \* the latest call of a Video constructor and how it ended
    procs       \* number of external processes (ffmpeg, ffprobe) started

vvars == <<mediaFiles, videos, ctor, procs>>

VARIABLES
    content,    \* content[n]: the seconds of video in the file named n
    last        \* the latest media operation: what it did and how it ended

ovars == <<content, last>>

VARIABLES
    chain       \* the chain of chainable calls a caller is making

vars == <<dirs, files, owner, inv, calls, mediaFiles, videos, ctor, procs,
          content, last, chain>>

\* Errors the caller of a wrapped call can see.
MyException == "MyException"
MkdtempError == "OSError(mkdtemp)"
RmtreeError == "OSError(rmtree)"

NoOutcome == [kind |-> "none", val |-> 0, err |-> "none"]
Returned(v) == [kind |-> "return", val |-> v, err |-> "none"]
Raised(e) == [kind |-> "raise", val |-> 0, err |-> e]

\* A thread that has not called a wrapped function yet.
IdleInv ==
    [pc |-> "idle",
     kw |-> NoDir,          \* kwargs["tmpdir"] as given by the caller
     prev |-> NoDir,        \* kwargs["tmpdir"] of this thread's previous call
     tmpdir |-> NoDir,      \* the local `tmpdir` made by mkdtemp
     arg |-> NoDir,         \* kwargs["tmpdir"] as seen by func
     exit |-> "none",       \* how func left: early, normal, raise
     bodyOut |-> NoOutcome, \* what func returned or raised
     result |-> NoOutcome,  \* what the caller of wrapper gets
     mkdtemps |-> 0, bodies |-> 0, rmtrees |-> 0]

HasTmpdirKw_Never(kwargs) == FALSE

\* `"tmpdir" in kwargs`
HasTmpdirKw(kwargs) == kwargs # NoDir

FreshNames_Any(existing) == TempDirs

\* tempfile.mkdtemp() only ever returns a name it has just created itself:
\* a name that did not exist.
FreshNames(existing) == TempDirs \ existing

InitTempdir ==
    /\ dirs = CallerDirs
    /\ files = [d \in AllDirs |-> {}]
    /\ owner = [d \in AllDirs |-> 0]
    /\ inv = [t \in Threads |-> IdleInv]
    /\ calls = 0

\* The caller invokes the wrapped function, with or without tmpdir=<dir>.
Call(t) ==
    /\ inv[t].pc \in {"idle", "done"}
    /\ calls < MaxCalls
    /\ \E kw \in {NoDir} \cup CallerDirs :
          inv' = [inv EXCEPT ![t] = [IdleInv EXCEPT !.pc = "entered", !.kw = kw,
                                                    !.prev = inv[t].kw]]
    /\ calls' = calls + 1
    /\ UNCHANGED <<dirs, files, owner>>
    /\ UNCHANGED <<vvars, ovars, chain>>

\* if "tmpdir" in kwargs: return func(*args, **kwargs)    -- func starts
PassThrough(t) ==
    /\ inv[t].pc = "entered"
    /\ HasTmpdirKw(inv[t].kw)
    /\ inv' = [inv EXCEPT ![t].pc = "body", ![t].arg = inv[t].kw,
                          ![t].bodies = inv[t].bodies + 1]
    /\ UNCHANGED <<dirs, files, owner, calls>>
    /\ UNCHANGED <<vvars, ovars, chain>>

\* tmpdir = tempfile.mkdtemp(); kwargs["tmpdir"] = tmpdir; try: func(...)
Mkdtemp(t) ==
    /\ inv[t].pc = "entered"
    /\ ~HasTmpdirKw(inv[t].kw)
    /\ \E d \in FreshNames(dirs) :
          /\ dirs' = dirs \cup {d}
          /\ files' = [files EXCEPT ![d] = {}]
          /\ owner' = [owner EXCEPT ![d] = t]
          /\ inv' = [inv EXCEPT ![t].pc = "body", ![t].tmpdir = d, ![t].arg = d,
                                ![t].mkdtemps = inv[t].mkdtemps + 1,
                                ![t].bodies = inv[t].bodies + 1]
    /\ UNCHANGED calls
    /\ UNCHANGED <<vvars, ovars, chain>>

MkdtempFail_Swallowed(t) ==
    /\ inv[t].pc = "entered"
    /\ inv[t].kw = NoDir
    /\ inv' = [inv EXCEPT ![t].pc = "done", ![t].result = Returned(0),
                          ![t].mkdtemps = inv[t].mkdtemps + 1]
    /\ UNCHANGED <<dirs, files, owner, calls>>
    /\ UNCHANGED <<vvars, ovars, chain>>

\* tempfile.mkdtemp() raises (no writable temporary area, no usable name):
\* the statement is outside the try block, so the error leaves the wrapper.
MkdtempFail(t) ==
    /\ inv[t].pc = "entered"
    /\ ~HasTmpdirKw(inv[t].kw)
    /\ inv' = [inv EXCEPT ![t].pc = "done", ![t].result = Raised(MkdtempError),
                          ![t].mkdtemps = inv[t].mkdtemps + 1]
    /\ UNCHANGED <<dirs, files, owner, calls>>
    /\ UNCHANGED <<vvars, ovars, chain>>

AfterBody_NoFinally(r, ex, o) ==
    IF r.kw # NoDir \/ o.kind = "raise"
    THEN [r EXCEPT !.pc = "done", !.exit = ex, !.bodyOut = o, !.result = o]
    ELSE [r EXCEPT !.pc = "finally", !.exit = ex, !.bodyOut = o]

\* Where control goes when func has finished with outcome o.
\* Pass-through: `return func(...)` hands o to the caller.
\* Managed: the finally clause runs next.
AfterBody(r, ex, o) ==
    IF HasTmpdirKw(r.kw)
    THEN [r EXCEPT !.pc = "done", !.exit = ex, !.bodyOut = o, !.result = o]
    ELSE [r EXCEPT !.pc = "finally", !.exit = ex, !.bodyOut = o]

\* func writes an intermediate artifact into the directory it was given.
BodyWrite(t) ==
    /\ inv[t].pc = "body"
    /\ \E f \in FileNames \ files[inv[t].arg] :
          files' = [files EXCEPT ![inv[t].arg] = @ \cup {f}]
    /\ UNCHANGED <<dirs, owner, inv, calls>>
    /\ UNCHANGED <<vvars, ovars, chain>>

\* func returns before doing any work.
BodyEarlyReturn(t) ==
    /\ inv[t].pc = "body"
    /\ files[inv[t].arg] = {}
    /\ \E v \in RetVals : inv' = [inv EXCEPT ![t] = AfterBody(@, "early", Returned(v))]
    /\ UNCHANGED <<dirs, files, owner, calls>>
    /\ UNCHANGED <<vvars, ovars, chain>>

\* func runs to its last statement and returns.
BodyReturn(t) ==
    /\ inv[t].pc = "body"
    /\ files[inv[t].arg] # {}
    /\ \E v \in RetVals : inv' = [inv EXCEPT ![t] = AfterBody(@, "normal", Returned(v))]
    /\ UNCHANGED <<dirs, files, owner, calls>>
    /\ UNCHANGED <<vvars, ovars, chain>>

\* func raises.
BodyRaise(t) ==
    /\ inv[t].pc = "body"
    /\ inv' = [inv EXCEPT ![t] = AfterBody(@, "raise", Raised(MyException))]
    /\ UNCHANGED <<dirs, files, owner, calls>>
    /\ UNCHANGED <<vvars, ovars, chain>>

\* What leaves a try/finally whose finally clause completed or raised:
\* an exception raised inside finally replaces the pending return value or
\* the pending exception.
FinallyOutcome(pending, cleanupRaised) ==
    IF cleanupRaised THEN Raised(RmtreeError) ELSE pending

Rmtree_KeepsDir(t) ==
    /\ inv[t].pc = "finally"
    /\ files' = [files EXCEPT ![inv[t].tmpdir] = {}]
    /\ inv' = [inv EXCEPT ![t].pc = "done",
                          ![t].rmtrees = inv[t].rmtrees + 1,
                          ![t].result = inv[t].bodyOut]
    /\ UNCHANGED <<dirs, owner, calls>>
    /\ UNCHANGED <<vvars, ovars, chain>>

\* finally: shutil.rmtree(tmpdir)   -- the tree is removed
Rmtree(t) ==
    /\ inv[t].pc = "finally"
    /\ dirs' = dirs \ {inv[t].tmpdir}
    /\ files' = [files EXCEPT ![inv[t].tmpdir] = {}]
    /\ owner' = [owner EXCEPT ![inv[t].tmpdir] = 0]
    /\ inv' = [inv EXCEPT ![t].pc = "done",
                          ![t].rmtrees = inv[t].rmtrees + 1,
                          ![t].result = FinallyOutcome(inv[t].bodyOut, FALSE)]
    /\ UNCHANGED calls
    /\ UNCHANGED <<vvars, ovars, chain>>

\* finally: shutil.rmtree(tmpdir)   -- rmtree raises (e.g. permission error);
\* the directory stays, with whatever part of its contents was not yet removed.
RmtreeFail(t) ==
    /\ inv[t].pc = "finally"
    /\ \E left \in SUBSET files[inv[t].tmpdir] :
          files' = [files EXCEPT ![inv[t].tmpdir] = left]
    /\ inv' = [inv EXCEPT ![t].pc = "done",
                          ![t].rmtrees = inv[t].rmtrees + 1,
                          ![t].result = FinallyOutcome(inv[t].bodyOut, TRUE)]
    /\ UNCHANGED <<dirs, owner, calls>>
    /\ UNCHANGED <<vvars, ovars, chain>>

NextTempdir ==
    \E t \in Threads :
        \/ Call(t)
        \/ PassThrough(t)
        \/ Mkdtemp(t)
        \/ MkdtempFail(t)
        \/ BodyWrite(t)
        \/ BodyEarlyReturn(t)
        \/ BodyReturn(t)
        \/ BodyRaise(t)
        \/ Rmtree(t)
        \/ RmtreeFail(t)

----------------------------------------------------------------------------
(* Part 2: the Video handle *)

Modules == {"chopper", "ffchopper", "avchopper", "avtoolkit"}

\* TEST_VID_PATH = "tests/test.mp4", the one media file present at the start.
TEST_VID_PATH == 1

\* A path as a caller writes it, relative to the working directory.
RelPath(n) == [abs |-> FALSE, name |-> n]

\* os.path.abspath(source)
abspath(p) == [abs |-> TRUE, name |-> p.name]

\* os.path.exists(source)
exists(p, fs) == p.name \in fs

\* Whether Video.__init__ of revision m starts with
\*     if not os.path.exists(source): raise IOError(...)
\* chopper.py assigns self.source without looking at the filesystem.
CtorChecksPath(m) == m \in {"ffchopper", "avchopper", "avtoolkit"}

\* self.source as __init__ of revision m stores it.
StoredSource(m, p) == IF m \in {"avchopper", "avtoolkit"} THEN abspath(p) ELSE p

\* The value of self._data right after construction.
None == "None"

\* What json.loads(ffprobe(...)) can give for a readable file: a mapping whose
\* first stream has a duration (a video), one whose first stream has none (an
\* image), or (as in the tests' mock) the empty mapping.
Mappings == {"{}", "{streams}", "{streams:[{}]}"}

DataUnset_Falsy(d) == d \in {None, "{}"}

\* `self._data is None`
DataUnset(d) == d = None

NoCtor == [module |-> "none", path |-> RelPath(0), existed |-> FALSE, result |-> "none"]

InitVideo ==
    /\ mediaFiles = {TEST_VID_PATH}
    /\ videos = <<>>
    /\ ctor = NoCtor
    /\ procs = 0

\* Video(source) in revision m, for a source at which there may be no file.
Video__init__(m, n) ==
    LET source == RelPath(n)
        there == exists(source, mediaFiles)
    IN  /\ ctor' = [module |-> m, path |-> source, existed |-> there,
                    result |-> IF CtorChecksPath(m) /\ ~there THEN "IOError" ELSE "ok"]
        /\ IF CtorChecksPath(m) /\ ~there
           THEN UNCHANGED videos
           ELSE /\ Len(videos) < MaxVideos
                /\ videos' = Append(videos,
                       [module |-> m, source |-> StoredSource(m, source),
                        data |-> None, existed |-> there,
                        reads |-> 0, probes |-> 0, probeFails |-> 0])
        /\ UNCHANGED <<mediaFiles, procs>>
        /\ UNCHANGED <<tvars, ovars, chain>>

\* vid.data while self._data is None: probe runs ffprobe, which succeeds.
DataProbe(i) ==
    /\ i \in 1..Len(videos)
    /\ videos[i].reads < MaxReads
    /\ procs < MaxProcs
    /\ DataUnset(videos[i].data)
    /\ exists(videos[i].source, mediaFiles)
    /\ \E m \in Mappings :
          videos' = [videos EXCEPT ![i].data = m,
                                   ![i].reads = @ + 1, ![i].probes = @ + 1]
    /\ procs' = procs + 1
    /\ UNCHANGED <<mediaFiles, ctor>>
    /\ UNCHANGED <<tvars, ovars, chain>>

\* vid.data while self._data is None: ffprobe exits with an error (no such
\* file, not a media file); check_output raises and nothing is stored.
DataProbeFail(i) ==
    /\ i \in 1..Len(videos)
    /\ videos[i].reads < MaxReads
    /\ procs < MaxProcs
    /\ DataUnset(videos[i].data)
    /\ videos' = [videos EXCEPT ![i].reads = @ + 1, ![i].probes = @ + 1,
                                ![i].probeFails = @ + 1]
    /\ procs' = procs + 1
    /\ UNCHANGED <<mediaFiles, ctor>>
    /\ UNCHANGED <<tvars, ovars, chain>>

\* vid.data once self._data is set: return self._data.
DataCached(i) ==
    /\ i \in 1..Len(videos)
    /\ videos[i].reads < MaxReads
    /\ ~DataUnset(videos[i].data)
    /\ videos' = [videos EXCEPT ![i].reads = @ + 1]
    /\ UNCHANGED <<mediaFiles, ctor, procs>>
    /\ UNCHANGED <<tvars, ovars, chain>>

\* vid.extract_audio(output_path): one ffmpeg run that writes output_path.
extract_audio(i, n) ==
    /\ i \in 1..Len(videos)
    /\ procs < MaxProcs
    /\ \/ /\ exists(videos[i].source, mediaFiles)
          /\ mediaFiles' = mediaFiles \cup {n}
       \/ UNCHANGED mediaFiles    \* ffmpeg fails, check_call raises
    /\ procs' = procs + 1
    /\ UNCHANGED <<videos, ctor>>
    /\ UNCHANGED <<tvars, ovars, chain>>

NextVideo ==
    \/ \E m \in Modules, n \in 1..MaxCtorPaths : Video__init__(m, n)
    \/ \E i \in 1..MaxVideos : DataProbe(i)
    \/ \E i \in 1..MaxVideos : DataProbeFail(i)
    \/ \E i \in 1..MaxVideos : DataCached(i)
    \/ \E i \in 1..MaxVideos, n \in 1..MaxCtorPaths : extract_audio(i, n)

----------------------------------------------------------------------------
(* Part 3: the media operations *)

FFMPEG_BIN == "ffmpeg"
FFPROBE_BIN == "ffprobe"

\* One second of video: <<file it was first recorded in, position>>.
Second(n, k) == <<n, k>>

\* The test video: MaxDur seconds long.
TestVideo == [k \in 1..MaxDur |-> Second(TEST_VID_PATH, k)]

\* What a file holds after an ffmpeg run that died while writing it.
Partial == <<Second(0, 0)>>

\* The longest video the model lets an operation produce.
MaxContent == 2 * MaxDur

\* A file name as the caller passes it: every media file is an .mp4.
PathStr(n) == "p" \o ToString(n) \o ".mp4"

\* The string held in self.source.
SourceStr(src) == IF src.abs THEN "/cwd/" \o PathStr(src.name) ELSE PathStr(src.name)

\* The file a path string names, relative or absolute; 0 when it is none
\* of the caller's files.
FileOf(s) ==
    IF \E n \in PathNames : s \in {PathStr(n), "/cwd/" \o PathStr(n)}
    THEN CHOOSE n \in PathNames : s \in {PathStr(n), "/cwd/" \o PathStr(n)}
    ELSE 0

\* str(seconds)
str(n) == ToString(n)

\* str(x) of a float with a whole value, as in str(start_seconds + 2.0)
strf(n) == ToString(n) \o ".0"

\* How ffmpeg reads a duration or position given as decimal numeral.
ParseSeconds(s) ==
    CHOOSE n \in 0..(2 * MaxContent) : s \in {ToString(n), ToString(n) \o ".0"}

\* os.path.splitext(path)[1]
splitext(path) == ".mp4"

\* The directory name mkdtemp returns for d.
DirStr(d) == "/tmp/" \o d[1] \o ToString(d[2])

\* os.path.join(tmpdir, name)
join(dir, name) == dir \o "/" \o name

Min(a, b) == IF a < b THEN a ELSE b

\* Before any operation.  trace lists what the operation did, in order;
\* argvs and runners the external processes it started; outs the output
\* files it was asked for; made the temporary directories it created;
\* selfWas and thereWas the video in self and the files that existed when it
\* started; vid the overlaid input, vidWas and vidNow its _data before and
\* after; given the arguments of a direct call; hist the directories and
\* temporary files there were before each step of trace, and at the end.
NoOp ==
    [op |-> "none", module |-> "none", style |-> "none",
     trace |-> <<>>, hist |-> <<>>, argvs |-> <<>>, runners |-> <<>>,
     result |-> NoOutcome, handles |-> <<>>, text |-> "",
     outs |-> <<>>, made |-> {},
     selfWas |-> <<>>, vidWas |-> None, thereWas |-> {},
     seconds |-> 0, offset |-> 0, given |-> <<>>,
     vid |-> [kind |-> "none"], vidNow |-> None]

InitOps ==
    /\ content = [n \in PathNames |-> IF n = TEST_VID_PATH THEN TestVideo ELSE <<>>]
    /\ last = NoOp

(* What an ffmpeg process does with its argument list.  Options that take a
   value are skipped with it, -t and -ss apply to the next file named, -i
   names an input, and any other word is an output file. *)
ValueOpts ==
    {"-i", "-t", "-ss", "-f", "-safe", "-c", "-filter_complex", "-r", "-vf", "-acodec"}
FlagOpts == {"-y", "-vn"}

NoCut == [t |-> -1, ss |-> 0]

RECURSIVE ParseArgs(_, _, _)
ParseArgs(argv, i, acc) ==
    IF i > Len(argv) THEN acc
    ELSE IF argv[i] = "-i"
    THEN ParseArgs(argv, i + 2,
            [acc EXCEPT !.ins = Append(@, [path |-> argv[i + 1], cut |-> acc.cut]),
                        !.cut = NoCut])
    ELSE IF argv[i] = "-t"
    THEN ParseArgs(argv, i + 2, [acc EXCEPT !.cut.t = ParseSeconds(argv[i + 1])])
    ELSE IF argv[i] = "-ss"
    THEN ParseArgs(argv, i + 2, [acc EXCEPT !.cut.ss = ParseSeconds(argv[i + 1])])
    ELSE IF argv[i] = "-f"
    THEN ParseArgs(argv, i + 2, [acc EXCEPT !.concat = (argv[i + 1] = "concat")])
    ELSE IF argv[i] \in ValueOpts
    THEN ParseArgs(argv, i + 2, acc)
    ELSE IF argv[i] \in FlagOpts
    THEN ParseArgs(argv, i + 1, [acc EXCEPT !.yes = @ \/ argv[i] = "-y"])
    ELSE ParseArgs(argv, i + 1,
            [acc EXCEPT !.outs = Append(@, [path |-> argv[i], cut |-> acc.cut]),
                        !.cut = NoCut])

\* argv[1] is the program.
Job(argv) ==
    ParseArgs(argv, 2, [ins |-> <<>>, outs |-> <<>>, cut |-> NoCut,
                        concat |-> FALSE, yes |-> FALSE])

\* The part of video c that -ss and -t leave.
Cut(c, cut) ==
    LET from == Min(cut.ss, Len(c))
        to == IF cut.t < 0 THEN Len(c) ELSE Min(Len(c), from + cut.t)
    IN  SubSeq(c, from + 1, to)

RECURSIVE Flatten(_)
Flatten(ss) == IF ss = <<>> THEN <<>> ELSE Head(ss) \o Flatten(Tail(ss))

(* The files an ffmpeg run sees: fs.main are the caller's files (who exists,
   what it holds), fs.tmp the files in temporary directories by full name,
   fs.lists the text files written for the concat demuxer. *)
FsExists(fs, path) ==
    \/ FileOf(path) \in fs.there
    \/ path \in DOMAIN fs.tmp
    \/ path \in DOMAIN fs.lists

\* The file names a program can meet.
Known(fs) ==
    DOMAIN fs.tmp \cup {PathStr(n) : n \in PathNames}
                  \cup {"/cwd/" \o PathStr(n) : n \in PathNames}

\* The line "file %s\n" % path of a concat listing, and the path the concat
\* demuxer reads from a line ("" when there is none).
Line(path) == "file " \o path
Listed(fs, line) ==
    IF \E q \in Known(fs) : line = Line(q)
    THEN CHOOSE q \in Known(fs) : line = Line(q)
    ELSE ""

FsRead(fs, path) ==
    IF path \in DOMAIN fs.tmp THEN fs.tmp[path]
    ELSE IF FileOf(path) \in fs.there THEN fs.holds[FileOf(path)]
    ELSE <<>>

\* The video ffmpeg decodes from its inputs: with -f concat the files listed
\* in the input, one after the other; else the first input (a second input
\* is laid over it and adds no time).
Decoded(fs, job) ==
    LET in == job.ins[1]
    IN  IF job.concat
        THEN Cut(Flatten([k \in 1..Len(fs.lists[in.path]) |->
                             FsRead(fs, Listed(fs, fs.lists[in.path][k]))]), in.cut)
        ELSE Cut(FsRead(fs, in.path), in.cut)

\* Whether the run can succeed at all: every input is there, and no output
\* is in the way (without -y ffmpeg does not overwrite a file).
Runnable(fs, job) ==
    /\ Len(job.ins) > 0
    /\ \A k \in 1..Len(job.ins) : FsExists(fs, job.ins[k].path)
    /\ job.concat =>
          /\ job.ins[1].path \in DOMAIN fs.lists
          /\ \A k \in 1..Len(fs.lists[job.ins[1].path]) :
                FsExists(fs, Listed(fs, fs.lists[job.ins[1].path][k]))
    /\ \A k \in 1..Len(job.outs) : FsExists(fs, job.outs[k].path) => job.yes

\* fs with file `path` holding c.
FsWrite(fs, path, c) ==
    IF FileOf(path) # 0
    THEN [fs EXCEPT !.there = @ \cup {FileOf(path)}, !.holds[FileOf(path)] = c]
    ELSE [fs EXCEPT !.tmp = [q \in DOMAIN @ \cup {path} |-> IF q = path THEN c ELSE @[q]]]

RECURSIVE WriteOutputs(_, _, _, _)
WriteOutputs(fs, job, src, k) ==
    IF k > Len(job.outs) THEN fs
    ELSE WriteOutputs(FsWrite(fs, job.outs[k].path, Cut(src, job.outs[k].cut)),
                      job, src, k + 1)

RECURSIVE WritePartial(_, _, _, _)
WritePartial(fs, job, begun, k) ==
    IF k > Len(job.outs) THEN fs
    ELSE WritePartial(IF k \in begun THEN FsWrite(fs, job.outs[k].path, Partial) ELSE fs,
                      job, begun, k + 1)

\* The files after a run of ffmpeg with argv: ok says whether the process
\* ran to the end; when it did not, begun are the outputs it had started.
FfmpegRun(fs, argv, ok, begun) ==
    LET job == Job(argv)
    IN  IF ok /\ Runnable(fs, job)
        THEN WriteOutputs(fs, job, Decoded(fs, job), 1)
        ELSE IF Runnable(fs, job) THEN WritePartial(fs, job, begun, 1)
        ELSE fs

FfmpegOk(fs, argv, ok) == ok /\ Runnable(fs, Job(argv))

----------------------------------------------------------------------------
(* Running one operation: X is what has happened so far (the files, and the
   record of steps); each step gives [x |-> what has happened after it,
   res |-> what it returned or raised]. *)

CalledProcessError == "CalledProcessError"
IOError == "IOError"
TypeError == "TypeError"

\* The names operations give to files in their temporary directory.
TmpNames ==
    {"files.txt", "beginning.mp4", "end.mp4", "output.mp4", "overlay.mp4",
     "a.mp4", "b.mp4", "source-a.mp4", "source-b.mp4", "joined.mp4"}

\* The full names of the files in temporary directory d, given the names.
Under(d, names) == {join(DirStr(d), nm) : nm \in names}

\* The state of the files and an empty record, when an operation starts.
Start ==
    [fs |-> [there |-> mediaFiles, holds |-> content,
             tmp |-> [q \in UNION {Under(d, files[d]) : d \in TempDirs} |-> <<>>],
             lists |-> <<>>, dirs |-> dirs],
     trace |-> <<>>, hist |-> <<>>, argvs |-> <<>>, runners |-> <<>>, made |-> {}]

\* The directories and the files in temporary directories there are after x.
Snapshot(x) ==
    [dirs |-> x.fs.dirs, names |-> DOMAIN x.fs.tmp \cup DOMAIN x.fs.lists]

\* x followed by step `what`, which starts from the files x left.
Did(x, what) ==
    [x EXCEPT !.trace = Append(@, what), !.hist = Append(@, Snapshot(x))]

\* What the process wrote to its standard output, and bytes.decode(ENCODING).
Stdout == [bytes |-> "Hi!"]
decode(b) == b.bytes

\* ffmpeg(args, capture_stdout): func = check_output_decoded if capture_stdout
\* else check_call; return func([FFMPEG_BIN]+args).  A non-zero exit raises.
ffmpeg(x, args, capture_stdout, ok, begun) ==
    LET argv == <<FFMPEG_BIN>> \o args
        runner == IF capture_stdout THEN "check_output_decoded" ELSE "check_call"
        x1 == [Did(x, "ffmpeg") EXCEPT !.fs = FfmpegRun(x.fs, argv, ok, begun),
                                       !.argvs = Append(@, argv),
                                       !.runners = Append(@, runner)]
    IN  [x |-> x1,
         res |-> IF FfmpegOk(x.fs, argv, ok) THEN Returned(0)
                 ELSE Raised(CalledProcessError),
         text |-> IF FfmpegOk(x.fs, argv, ok) /\ capture_stdout
                  THEN decode(Stdout) ELSE ""]

\* Video(path) inside an operation of revision m: the handle, or IOError.
NewVideo(x, m, path) ==
    IF CtorChecksPath(m) /\ ~FsExists(x.fs, path)
    THEN [x |-> Did(x, "Video"), res |-> Raised(IOError), handle |-> <<>>]
    ELSE [x |-> Did(x, "Video"), res |-> Returned(0),
          handle |-> <<IF m \in {"avchopper", "avtoolkit"} /\ FileOf(path) # 0
                       THEN "/cwd/" \o PathStr(FileOf(path)) ELSE path>>]

\* tempfile.mkdtemp() giving d.
mkdtemp(x, d) ==
    [Did(x, "mkdtemp") EXCEPT !.fs.dirs = @ \cup {d}, !.made = @ \cup {d}]

\* f without the arguments in gone.
Without(f, gone) == [q \in DOMAIN f \ gone |-> f[q]]

\* shutil.rmtree(tmpdir)
rmtree(x, d) ==
    [Did(x, "rmtree") EXCEPT !.fs.dirs = @ \ {d},
                             !.fs.tmp = Without(@, Under(d, TmpNames)),
                             !.fs.lists = Without(@, Under(d, TmpNames))]

\* with open(path, "w") as f: f.writelines(lines)
writelines(x, path, lines) ==
    [Did(x, "write") EXCEPT
        !.fs.lists = [q \in DOMAIN @ \cup {path} |-> IF q = path THEN lines ELSE @[q]]]

\* os.unlink(path) of a file in a temporary directory.
unlink(x, path) ==
    [Did(x, "unlink") EXCEPT !.fs.tmp = Without(@, {path}),
                             !.fs.lists = Without(@, {path})]

\* shutil.move(src, dst) of a file in a temporary directory to a caller's
\* path: the file is at dst afterwards and no longer at src; fails (nothing
\* moved) when src is missing or dst cannot be written.
move(x, src, dst, ok) ==
    IF ok /\ src \in DOMAIN x.fs.tmp /\ FileOf(dst) # 0
    THEN [x |-> [Did(x, "move") EXCEPT
                    !.fs.there = @ \cup {FileOf(dst)},
                    !.fs.holds[FileOf(dst)] = x.fs.tmp[src],
                    !.fs.tmp = Without(@, {src})],
          res |-> Returned(0)]
    ELSE [x |-> Did(x, "move"), res |-> Raised(IOError)]

\* Python's binding of a call of func with args and kwargs to the parameters
\* in params: TypeError when a parameter filled by position is also given by
\* keyword, or when there are more positional arguments than parameters.
BindError(params, npos, kws) ==
    \/ npos > Len(params)
    \/ \E k \in 1..Min(npos, Len(params)) : params[k] \in kws

\* No read of vid.data.
NoRd == [x |-> <<>>, res |-> Returned(0), data |-> None, read |-> FALSE, probed |-> FALSE]

(* The points at which an operation can fail for reasons outside the
   program: mkdtemp, an external process (ffmpeg, ffprobe), a move; at most
   one of them stops the body.  begun are the outputs a failing ffmpeg had
   started to write, rm whether rmtree succeeds. *)
Faults(points, nouts, wrapped) ==
    {o \in [at : points \cup {"none"}, begun : SUBSET (1..nouts), rm : BOOLEAN] :
        /\ o.begun # {} => o.at = "ffmpeg"
        /\ ~o.rm => wrapped}

TmpName_Reused(x) == <<"tmp", 1>>

\* tempfile.mkdtemp() returns a name that is not in use; operations are given
\* the first one.
TmpName(x) ==
    CHOOSE d \in FreshNames(x.fs.dirs) : \A e \in FreshNames(x.fs.dirs) : d[2] <= e[2]

\* try: b finally: shutil.rmtree(tmpdir), where b is how the body ended.
Finally(b, d, rmOk) ==
    [x |-> IF rmOk THEN rmtree(b.x, d) ELSE Did(b.x, "rmtree"),
     res |-> FinallyOutcome(b.res, ~rmOk),
     handles |-> IF rmOk THEN b.handles ELSE <<>>,
     rd |-> b.rd]

\* func(args, kwargs) when the arguments cannot be bound to the parameters.
Unbound(x) ==
    [x |-> Did(x, "TypeError"), res |-> Raised(TypeError), handles |-> <<>>, rd |-> NoRd]

\* What has happened when the body of a wrapped method starts after x: the
\* wrapper has made the directory TmpName(x).
Entered(x) == Did(mkdtemp(x, TmpName(x)), "body")

(* The wrapper of avtoolkit.util.tempdir around a method, in managed mode:
   mkdtemp, kwargs["tmpdir"] = tmpdir, try: func(args, kwargs), finally:
   rmtree.  npos and kws are the caller's positional and keyword arguments,
   b is how func ends when it is run from Entered(x) with tmpdir bound to
   DirStr(TmpName(x)). *)
tempdir(x, params, npos, kws, b, mkOk, rmOk) ==
    IF ~mkOk
    THEN [x |-> Did(x, "mkdtemp"), res |-> Raised(MkdtempError), handles |-> <<>>,
          rd |-> NoRd]
    ELSE Finally(IF BindError(params, npos, kws \cup {"tmpdir"})
                 THEN Unbound(mkdtemp(x, TmpName(x)))
                 ELSE b,
                 TmpName(x), rmOk)

(* The tempdir decorator of avchopper.util, which hands the workspace to the
   operation as its first parameter; otherwise as above. *)
tempdir_avchopper(x, params, npos, kws, b, mkOk, rmOk) ==
    IF ~mkOk
    THEN [x |-> Did(x, "mkdtemp"), res |-> Raised(MkdtempError), handles |-> <<>>,
          rd |-> NoRd]
    ELSE Finally(IF BindError(params, npos + 1, kws)
                 THEN Unbound(mkdtemp(x, TmpName(x)))
                 ELSE b,
                 TmpName(x), rmOk)

\* The files by name that are in temporary directory d after x.
NamesIn(x, d) ==
    {nm \in TmpNames : join(DirStr(d), nm) \in DOMAIN x.fs.tmp \cup DOMAIN x.fs.lists}

\* The caller's handles after the operation read vid.data as rd says.
VideosAfter(vid, rd) ==
    IF vid.kind = "handle" /\ rd.read
    THEN [videos EXCEPT
            ![vid.j].data = IF rd.probed /\ rd.res.kind # "raise" THEN rd.data ELSE @,
            ![vid.j].reads = @ + 1,
            ![vid.j].probes = @ + (IF rd.probed THEN 1 ELSE 0),
            ![vid.j].probeFails = @ + (IF rd.probed /\ rd.res.kind = "raise" THEN 1 ELSE 0)]
    ELSE videos

\* One operation is followed from the state the constructors left: it has
\* ended as r, the files are as it left them, and `last` describes it.
Commit(r, rec) ==
    /\ last = NoOp
    /\ \E e \in {r} :
          /\ mediaFiles' = e.x.fs.there
          /\ content' = e.x.fs.holds
          /\ dirs' = e.x.fs.dirs
          /\ files' = [d \in AllDirs |->
                          IF d \in e.x.fs.dirs THEN NamesIn(e.x, d) ELSE {}]
          /\ last' = [rec EXCEPT !.trace = e.x.trace,
                                 !.hist = Append(e.x.hist, Snapshot(e.x)),
                                 !.argvs = e.x.argvs,
                                 !.runners = e.x.runners, !.made = e.x.made,
                                 !.result = e.res, !.handles = e.handles,
                                 !.thereWas = mediaFiles,
                                 !.vidNow = IF e.rd.read /\ e.rd.probed
                                            THEN e.rd.data ELSE rec.vidWas]
          /\ videos' = IF e.rd.read THEN VideosAfter(rec.vid, e.rd) ELSE videos
          /\ procs' = procs + Len(e.x.argvs)
    /\ UNCHANGED <<owner, inv, calls, ctor, chain>>

\* The caller's handles of the revisions in mods, while no operation has run.
Callable(mods) ==
    {i \in 1..Len(videos) : last = NoOp /\ videos[i].module \in mods}

\* Call styles: vid.method(...) passes self by position, Video.method(self=vid,
\* ...) by keyword.
Styles == {"method", "keywords"}

\* The argument lists the direct calls of ffmpeg() are made with.
TestArgs == <<"a", "b", "c">>
ArgLists ==
    {TestArgs} \cup {<<"-i", PathStr(a), PathStr(b)>> : a, b \in PathNames}

\* avtoolkit.video.ffmpeg(args, capture_stdout), called directly.
ffmpeg_call(args, capture_stdout, ok) ==
    LET r == ffmpeg(Start, args, capture_stdout, ok, {})
    IN  /\ Commit([x |-> r.x, res |-> r.res, handles |-> <<>>, rd |-> NoRd],
                  [NoOp EXCEPT !.op = "ffmpeg", !.module = "avtoolkit",
                               !.given = args,
                               !.style = IF capture_stdout THEN "capture" ELSE "call",
                               !.text = r.text])

\* The first of the steps that raised decides how the operation ends; when
\* none did, it returns the handles.
Fail(step) == [x |-> step.x, res |-> step.res, handles |-> <<>>, rd |-> NoRd]
Done(x, handles) == [x |-> x, res |-> Returned(0), handles |-> handles, rd |-> NoRd]
Failed(step) == step.res.kind = "raise"

\* Step r and, unless it raised, the steps F that follow it.
Then(r, F(_)) == IF Failed(r) THEN Fail(r) ELSE F(r)

SplitArgs_NoSeek(source, seconds, beginning, end, end_offset_seconds) ==
    <<"-i", source, "-t", str(seconds), beginning, end>>

\* The arguments Video.split gives ffmpeg (avtoolkit: no end offset).
SplitArgs(source, seconds, beginning, end, end_offset_seconds) ==
    <<"-i", source,
      "-t", str(seconds),
      beginning,
      "-ss", str(seconds + end_offset_seconds),
      end>>

\* avtoolkit Video.split(self, seconds, beginning_path, end_path)
split_run(x, source, seconds, beginning_path, end_path, ok, begun) ==
    Then(ffmpeg(x, SplitArgs(source, seconds, beginning_path, end_path, 0),
                FALSE, ok, begun),
         LAMBDA f :
    Then(NewVideo(f.x, "avtoolkit", beginning_path),
         LAMBDA v1 :
    Then(NewVideo(v1.x, "avtoolkit", end_path),
         LAMBDA v2 : Done(v2.x, v1.handle \o v2.handle))))

\* What `last` says of a method of videos[i] with outputs outs.
Called(op, i, outs) ==
    [NoOp EXCEPT !.op = op, !.module = videos[i].module, !.style = "method",
                 !.outs = outs, !.selfWas = content[videos[i].source.name]]

\* vid.split(seconds, beginning_path, end_path) in avtoolkit
split(i, seconds, bp, ep, o) ==
    /\ i \in 1..Len(videos)
    /\ videos[i].module = "avtoolkit"
    /\ bp # ep /\ videos[i].source.name \notin {bp, ep}
    /\ Commit(split_run(Start, SourceStr(videos[i].source), seconds,
                        PathStr(bp), PathStr(ep), o.at # "ffmpeg", o.begun),
              [Called("split", i, <<bp, ep>>) EXCEPT !.seconds = seconds])

\* avchopper Video.split(tmpdir, self, seconds, beginning_path, end_path,
\* end_offset_seconds), once tmpdir is bound.
split_avchopper_body(x, tmpdir, source, seconds, beginning_path, end_path, end_offset_seconds, o) ==
    LET beginning == join(tmpdir, "beginning" \o splitext(beginning_path))
        end == join(tmpdir, "end" \o splitext(end_path))
        f == ffmpeg(x, SplitArgs(source, seconds, beginning, end, end_offset_seconds),
                    FALSE, o.at # "ffmpeg", o.begun)
        m1 == move(f.x, beginning, beginning_path, o.at # "move")
        m2 == move(m1.x, end, end_path, o.at # "move2")
        v1 == NewVideo(m2.x, "avchopper", beginning_path)
        v2 == NewVideo(v1.x, "avchopper", end_path)
    IN  IF Failed(f) THEN Fail(f)
        ELSE IF Failed(m1) THEN Fail(m1)
        ELSE IF Failed(m2) THEN Fail(m2)
        ELSE IF Failed(v1) THEN Fail(v1)
        ELSE IF Failed(v2) THEN Fail(v2)
        ELSE Done(v2.x, v1.handle \o v2.handle)

\* vid.split(seconds, beginning_path, end_path, end_offset_seconds) in avchopper
split_avchopper(i, seconds, bp, ep, offset, o) ==
    LET b == split_avchopper_body(Entered(Start), DirStr(TmpName(Start)),
                                  SourceStr(videos[i].source), seconds, PathStr(bp),
                                  PathStr(ep), offset, o)
    IN  /\ i \in 1..Len(videos)
        /\ videos[i].module = "avchopper"
        /\ bp # ep /\ videos[i].source.name \notin {bp, ep}
        /\ FreshNames(dirs) # {}
        /\ Commit(tempdir_avchopper(Start,
                      <<"tmpdir", "self", "seconds", "beginning_path", "end_path",
                        "end_offset_seconds">>, 4, {"end_offset_seconds"},
                      b, o.at # "mkdtemp", o.rm),
                  [Called("split", i, <<bp, ep>>) EXCEPT !.seconds = seconds,
                                                         !.offset = offset])

\* avtoolkit Video.reencode(self, output_path)
reencode(i, op, o) ==
    LET output_path == PathStr(op)
        f == ffmpeg(Start, <<"-i", SourceStr(videos[i].source), output_path>>,
                    FALSE, o.at # "ffmpeg", o.begun)
        v == NewVideo(f.x, "avtoolkit", output_path)
    IN  /\ i \in 1..Len(videos)
        /\ videos[i].module = "avtoolkit"
        /\ videos[i].source.name # op
        /\ Commit(IF Failed(f) THEN Fail(f) ELSE IF Failed(v) THEN Fail(v)
                  ELSE Done(v.x, v.handle),
                  Called("reencode", i, <<op>>))

\* avchopper Video.reencode(tmpdir, self, output_path), once tmpdir is bound.
reencode_avchopper_body(x, tmpdir, source, output_path, o) ==
    LET output == join(tmpdir, "output" \o splitext(output_path))
        f == ffmpeg(x, <<"-i", source, output>>, FALSE, o.at # "ffmpeg", o.begun)
        m == move(f.x, output, output_path, o.at # "move")
        v == NewVideo(m.x, "avchopper", output_path)
    IN  IF Failed(f) THEN Fail(f)
        ELSE IF Failed(m) THEN Fail(m)
        ELSE IF Failed(v) THEN Fail(v)
        ELSE Done(v.x, v.handle)

\* vid.reencode(output_path) in avchopper
reencode_avchopper(i, op, o) ==
    LET b == reencode_avchopper_body(Entered(Start), DirStr(TmpName(Start)),
                                     SourceStr(videos[i].source), PathStr(op), o)
    IN  /\ i \in 1..Len(videos)
        /\ videos[i].module = "avchopper"
        /\ videos[i].source.name # op
        /\ FreshNames(dirs) # {}
        /\ Commit(tempdir_avchopper(Start, <<"tmpdir", "self", "output_path">>,
                                    2, {}, b, o.at # "mkdtemp", o.rm),
                  Called("reencode", i, <<op>>))

AttributeError == "AttributeError"
KeyError == "KeyError"

\* ffprobe(args): check_output_decoded([FFPROBE_BIN]+args, stderr=DEV_NULL)
ffprobe(x, args, ok) ==
    [x |-> [Did(x, "ffprobe") EXCEPT !.argvs = Append(@, <<FFPROBE_BIN>> \o args),
                                     !.runners = Append(@, "check_output_decoded")],
     res |-> IF ok THEN Returned(0) ELSE Raised(CalledProcessError)]

\* vid.data of a handle whose _data is `data`: probe(self.source) the first
\* time, which gives mapping m when ffprobe can read the file.
ReadData(x, data, source, m, ok) ==
    IF ~DataUnset(data)
    THEN [x |-> Did(x, "data"), res |-> Returned(0), data |-> data,
          read |-> TRUE, probed |-> FALSE]
    ELSE LET pr == ffprobe(x, <<"-print_format", "json", "-show_streams", source>>,
                           ok /\ FsExists(x.fs, source))
         IN  [x |-> pr.x, res |-> pr.res,
              data |-> IF pr.res.kind = "raise" THEN None ELSE m,
              read |-> TRUE, probed |-> TRUE]

\* The operation did not read vid.data.
NoRead(x) == [NoRd EXCEPT !.x = x]

\* overlay_duration=None, limit=None: no duration given.
NoDuration == -1

\* A value Python takes as true in `overlay_duration or ...`: a number other
\* than 0 (None and 0 are both false).
Truthy(v) == v # NoDuration /\ v # 0

Duration_Zero(x, data, source) == [res |-> Returned(0), value |-> 0]

\* float(vid.data["streams"][0]["duration"]) for the file at source.
Duration(x, data, source) ==
    IF data = "{streams}"
    THEN [res |-> Returned(0), value |-> Len(FsRead(x.fs, source))]
    ELSE [res |-> Raised(KeyError), value |-> 0]

\* The vid argument of overlay: a handle the caller holds, or a path string.
VidArgs == [kind : {"handle"}, j : 1..MaxVideos] \cup [kind : {"str"}, n : PathNames]

\* The handle a vid argument stands for once it is a Video: its source
\* string and its _data.
VidHandle(vid, m) ==
    IF vid.kind = "handle"
    THEN [source |-> SourceStr(videos[vid.j].source), data |-> videos[vid.j].data]
    ELSE [source |-> IF m \in {"avchopper", "avtoolkit"} THEN "/cwd/" \o PathStr(vid.n)
                     ELSE PathStr(vid.n),
          data |-> None]

\* The -filter_complex value; duration is a float unless it was given.
OverlayFilter(start_seconds, duration) ==
    "overlay=0:0:enable='between(t," \o str(start_seconds) \o ","
        \o str(start_seconds + duration) \o ")'"

\* A step that raises err without doing anything else.
Raise(x, err) ==
    [x |-> Did(x, err), res |-> Raised(err), handles |-> <<>>, rd |-> NoRd]

\* The end of overlay in avtoolkit: ffmpeg([...]); return Video(output_path)
overlay_transcode(x, source, vidSource, start_seconds, duration, output_path, o) ==
    LET f == ffmpeg(x, <<"-i", source, "-i", vidSource, "-filter_complex",
                         OverlayFilter(start_seconds, duration), output_path>>,
                    FALSE, o.at # "ffmpeg", o.begun)
        v == NewVideo(f.x, "avtoolkit", output_path)
    IN  IF Failed(f) THEN Fail(f) ELSE IF Failed(v) THEN Fail(v)
        ELSE Done(v.x, v.handle)

\* avtoolkit Video.overlay(self, vid, start_seconds, output_path,
\* overlay_duration).  A string has neither .data nor .source.
overlay_run(x, source, vid, start_seconds, output_path, overlay_duration, m, o) ==
    LET vh == VidHandle(vid, "avtoolkit")
        rd == IF Truthy(overlay_duration) \/ vid.kind = "str" THEN NoRead(x)
              ELSE ReadData(x, vh.data, vh.source, m, o.at # "ffprobe")
        dur == IF Truthy(overlay_duration)
               THEN [res |-> Returned(0), value |-> overlay_duration]
               ELSE Duration(rd.x, rd.data, vh.source)
        r == IF vid.kind = "str" THEN Raise(x, AttributeError)
             ELSE IF Failed(rd) THEN Fail(rd)
             ELSE IF Failed(dur) THEN Raise(rd.x, AttributeError)
             ELSE overlay_transcode(rd.x, source, vh.source, start_seconds, dur.value,
                                    output_path, o)
    IN  [x |-> r.x, res |-> r.res, handles |-> r.handles, rd |-> rd]

\* What `last` says of an overlay of vid on videos[i].
Overlaid(i, vid, outs, start_seconds, overlay_duration) ==
    [Called("overlay", i, outs) EXCEPT
        !.seconds = start_seconds,
        !.given = <<vid.kind, overlay_duration>>, !.vid = vid,
        !.vidWas = IF vid.kind = "handle" THEN videos[vid.j].data ELSE None]

\* The guards on the vid argument of an overlay on videos[i].
VidOk(i, vid, outs) ==
    /\ vid.kind = "handle" =>
          /\ vid.j \in 1..Len(videos)
          /\ videos[vid.j].module = videos[i].module
          /\ videos[vid.j].reads < MaxReads
          /\ videos[vid.j].source.name \notin outs
    /\ vid.kind = "str" => vid.n \notin outs

\* vid.overlay(other, start_seconds, output_path, overlay_duration) in avtoolkit
overlay(i, vid, start_seconds, op, overlay_duration, m, o) ==
    LET r == overlay_run(Start, SourceStr(videos[i].source), vid, start_seconds,
                         PathStr(op), overlay_duration, m, o)
    IN  /\ i \in 1..Len(videos)
        /\ videos[i].module = "avtoolkit"
        /\ videos[i].source.name # op
        /\ VidOk(i, vid, {op})
        /\ Commit(r, Overlaid(i, vid, <<op>>, start_seconds, overlay_duration))

\* With rd as the read of vid.data the operation made.
WithRead(r, rd) == [r EXCEPT !.rd = rd]

\* `if isinstance(vid, str): vid = Video(vid)` in revision m
AsVideo(x, vid, m) ==
    IF vid.kind = "str" THEN NewVideo(x, m, PathStr(vid.n))
    ELSE [x |-> x, res |-> Returned(0), handle |-> <<>>]

\* avchopper Video.overlay(tmpdir, self, vid, start_seconds, output_path,
\* overlay_duration), once tmpdir is bound.
overlay_avchopper_body(x, tmpdir, source, vid, start_seconds, output_path, overlay_duration, m, o) ==
    LET nv == AsVideo(x, vid, "avchopper")
        vh == VidHandle(vid, "avchopper")
        rd == IF Truthy(overlay_duration) \/ Failed(nv) THEN NoRead(nv.x)
              ELSE ReadData(nv.x, vh.data, vh.source, m, o.at # "ffprobe")
        dur == IF Truthy(overlay_duration)
               THEN [res |-> Returned(0), value |-> overlay_duration]
               ELSE Duration(rd.x, rd.data, vh.source)
        output == join(tmpdir, "overlay" \o splitext(output_path))
        f == ffmpeg(rd.x, <<"-i", source, "-i", vh.source, "-filter_complex",
                            OverlayFilter(start_seconds, dur.value), output>>,
                    FALSE, o.at # "ffmpeg", o.begun)
        mv == move(f.x, output, output_path, o.at # "move")
        v == NewVideo(mv.x, "avchopper", output_path)
    IN  WithRead(IF Failed(nv) THEN Fail(nv)
                 ELSE IF Failed(rd) THEN Fail(rd)
                 ELSE IF Failed(dur) THEN Raise(rd.x, KeyError)
                 ELSE IF Failed(f) THEN Fail(f)
                 ELSE IF Failed(mv) THEN Fail(mv)
                 ELSE IF Failed(v) THEN Fail(v)
                 ELSE Done(v.x, v.handle),
                 rd)

\* vid.overlay(other, start_seconds, output_path, overlay_duration) in avchopper
overlay_avchopper(i, vid, start_seconds, op, overlay_duration, m, o) ==
    LET b == overlay_avchopper_body(Entered(Start), DirStr(TmpName(Start)),
                                    SourceStr(videos[i].source), vid, start_seconds,
                                    PathStr(op), overlay_duration, m, o)
        r == tempdir_avchopper(Start, <<"tmpdir", "self", "vid", "start_seconds",
                                        "output_path", "overlay_duration">>,
                               4, {"overlay_duration"}, b, o.at # "mkdtemp", o.rm)
    IN  /\ i \in 1..Len(videos)
        /\ videos[i].module = "avchopper"
        /\ videos[i].source.name # op
        /\ VidOk(i, vid, {op})
        /\ FreshNames(dirs) # {}
        /\ Commit(r, Overlaid(i, vid, <<op>>, start_seconds, overlay_duration))

\* chopper.py reads the duration from vid.data whatever limit is; ffchopper
\* takes `limit or float(...)`.
UsesLimit(m, limit) == m = "ffchopper" /\ Truthy(limit)

\* Only ffchopper ends with: for path in (source_a, source_b, filenames_txt):
\* os.unlink(path)
Unlinks(m) == m = "ffchopper"

RECURSIVE unlinkAll(_, _)
unlinkAll(x, paths) ==
    IF paths = <<>> THEN x ELSE unlinkAll(unlink(x, Head(paths)), Tail(paths))

\* Video.overlay(self, vid, start_seconds, limit) of ffchopper and chopper (m):
\* the workspace comes from tempfile.mkdtemp() in the body, the result is
\* joined.mp4 inside it, and the method returns None.
overlay_ffchopper_run(x, mod, source, vid, start_seconds, limit, m, o) ==
    LET nv == AsVideo(x, vid, mod)
        vh == VidHandle(vid, mod)
        d == TmpName(nv.x)
        tmpdir == DirStr(d)
        x1 == mkdtemp(nv.x, d)
        rd == IF UsesLimit(mod, limit) \/ Failed(nv) \/ o.at = "mkdtemp" THEN NoRead(x1)
              ELSE ReadData(x1, vh.data, vh.source, m, o.at # "ffprobe")
        dur == IF UsesLimit(mod, limit) THEN [res |-> Returned(0), value |-> limit]
               ELSE Duration(rd.x, rd.data, vh.source)
        source_a == join(tmpdir, "source-a.mp4")
        source_b == join(tmpdir, "source-b.mp4")
        f1 == ffmpeg(rd.x, <<"-i", source,
                             "-t", str(start_seconds),
                             source_a,
                             "-ss", IF UsesLimit(mod, limit)
                                    THEN str(start_seconds + dur.value)
                                    ELSE strf(start_seconds + dur.value),
                             source_b>>,
                     FALSE, o.at # "ffmpeg", o.begun)
        filenames_txt == join(tmpdir, "files.txt")
        w == writelines(f1.x, filenames_txt,
                        <<Line(source_a), Line(vh.source), Line(source_b)>>)
        joined == join(tmpdir, "joined.mp4")
        f2 == ffmpeg(w, <<"-f", "concat", "-i", filenames_txt, "-c", "copy", joined>>,
                     FALSE, o.at # "ffmpeg2", {})
    IN  WithRead(IF Failed(nv) THEN Fail(nv)
                 ELSE IF o.at = "mkdtemp" THEN Raise(nv.x, MkdtempError)
                 ELSE IF Failed(rd) THEN Fail(rd)
                 ELSE IF Failed(dur) THEN Raise(rd.x, KeyError)
                 ELSE IF Failed(f1) THEN Fail(f1)
                 ELSE IF Failed(f2) THEN Fail(f2)
                 ELSE Done(IF Unlinks(mod)
                           THEN unlinkAll(f2.x, <<source_a, source_b, filenames_txt>>)
                           ELSE f2.x, <<>>),
                 rd)

\* vid.overlay(other, start_seconds, limit) in ffchopper and in chopper
overlay_ffchopper(i, vid, start_seconds, limit, m, o) ==
    LET r == overlay_ffchopper_run(Start, videos[i].module, SourceStr(videos[i].source),
                                   vid, start_seconds, limit, m, o)
    IN  /\ i \in 1..Len(videos)
        /\ videos[i].module \in {"ffchopper", "chopper"}
        /\ VidOk(i, vid, {})
        /\ FreshNames(dirs) # {}
        /\ Commit(r, Overlaid(i, vid, <<>>, start_seconds, limit))

ConcatenateParams == <<"tmpdir", "self", "output_path", "before", "after", "reencode">>
InsertParams == <<"tmpdir", "self", "vid", "start_seconds", "output_path", "reencode">>

\* ["file %s\n" % vid.source for vid in timeline]
Lines(timeline) == [k \in 1..Len(timeline) |-> Line(timeline[k])]

\* avtoolkit Video.concatenate(tmpdir, self, output_path, before, after,
\* reencode), once its parameters are bound; before and after hold the
\* sources of the handles given.
concatenate_body(x, tmpdir, source, output_path, before, after, reenc, ok) ==
    LET timeline == before \o <<source>> \o after
        filenames == join(tmpdir, "files.txt")
        cmd == <<"-f", "concat", "-safe", "0", "-i", filenames>>
                 \o (IF ~reenc THEN <<"-c", "copy">> ELSE <<>>)
                 \o <<output_path>>
    IN  Then(ffmpeg(writelines(x, filenames, Lines(timeline)), cmd, FALSE, ok, {}),
             LAMBDA f :
        Then(NewVideo(f.x, "avtoolkit", output_path),
             LAMBDA v : Done(v.x, v.handle)))

\* A call of the wrapped concatenate with npos positional arguments and the
\* keyword arguments kws.
concatenate_call(x, npos, kws, source, output_path, before, after, reenc, mkOk, ok, rmOk) ==
    tempdir(x, ConcatenateParams, npos, kws,
            concatenate_body(Entered(x), DirStr(TmpName(x)), source, output_path,
                             before, after, reenc, ok),
            mkOk, rmOk)

\* The handles a caller can pass as before or after.
Handles(mods) == {<<>>} \cup {<<j>> : j \in Callable(mods)}
Sources(js) == [k \in 1..Len(js) |-> SourceStr(videos[js[k]].source)]

\* vid.concatenate(output_path=..., before=..., after=..., reencode=...), or
\* with style "keywords" Video.concatenate(self=vid, ...)
concatenate(i, style, op, before, after, reenc, o) ==
    /\ i \in 1..Len(videos)
    /\ videos[i].module = "avtoolkit"
    /\ videos[i].source.name # op
    /\ \A k \in 1..Len(before \o after) : videos[(before \o after)[k]].source.name # op
    /\ FreshNames(dirs) # {}
    /\ Commit(concatenate_call(Start, IF style = "method" THEN 1 ELSE 0,
                  {"output_path", "before", "after", "reencode"}
                      \cup (IF style = "method" THEN {} ELSE {"self"}),
                  SourceStr(videos[i].source), PathStr(op),
                  Sources(before), Sources(after), reenc,
                  o.at # "mkdtemp", o.at # "ffmpeg", o.rm),
              [Called("concatenate", i, <<op>>) EXCEPT !.style = style,
                                                      !.given = <<before, after>>])

\* avtoolkit Video.insert(tmpdir, self, vid, start_seconds, output_path,
\* reencode), once its parameters are bound.
insert_body(x, tmpdir, source, vidSource, start_seconds, output_path, reenc, o) ==
    LET ext == splitext(source)
        a_path == join(tmpdir, "a" \o ext)
        b_path == join(tmpdir, "b" \o ext)
    IN  Then(split_run(x, source, start_seconds, a_path, b_path,
                       o.at # "ffmpeg", o.begun),
             LAMBDA sp :
        Then(concatenate_call(Did(sp.x, "concatenate"), 2,
                              {"before", "after", "reencode"},
                              vidSource, output_path,
                              <<sp.handles[1]>>, <<sp.handles[2]>>, reenc,
                              o.at # "mkdtemp2", o.at # "ffmpeg2", o.at # "rmtree2"),
             LAMBDA c :
        Then(NewVideo(c.x, "avtoolkit", output_path),
             LAMBDA v : Done(v.x, v.handle))))

\* vid.insert(other, start_seconds, output_path=..., reencode=...), or with
\* style "keywords" Video.insert(self=vid, vid=other, ...)
insert(i, style, j, start_seconds, op, reenc, o) ==
    LET b == insert_body(Entered(Start), DirStr(TmpName(Start)),
                         SourceStr(videos[i].source), SourceStr(videos[j].source),
                         start_seconds, PathStr(op), reenc, o)
    IN  /\ i \in 1..Len(videos) /\ j \in 1..Len(videos)
        /\ videos[i].module = "avtoolkit" /\ videos[j].module = "avtoolkit"
        /\ op \notin {videos[i].source.name, videos[j].source.name}
        /\ Cardinality(FreshNames(dirs)) >= 2
        /\ Commit(tempdir(Start, InsertParams, IF style = "method" THEN 3 ELSE 0,
                          {"output_path", "reencode"}
                              \cup (IF style = "method" THEN {}
                                    ELSE {"self", "vid", "start_seconds"}),
                          b, o.at # "mkdtemp", o.rm),
                  [Called("insert", i, <<op>>) EXCEPT
                      !.style = style, !.seconds = start_seconds,
                      !.vid = [kind |-> "handle", j |-> j],
                      !.given = content[videos[j].source.name]])

\* A caller joining videos with concatenate and insert of avtoolkit.
NextJoin ==
    \/ \E n \in PathNames : Video__init__("avtoolkit", n)
    \/ \E i \in Callable({"avtoolkit"}), style \in Styles, op \in PathNames,
          before \in Handles({"avtoolkit"}), after \in Handles({"avtoolkit"}), reenc \in BOOLEAN,
          o \in Faults({"mkdtemp", "ffmpeg"}, 0, TRUE) :
            concatenate(i, style, op, before, after, reenc, o)
    \/ \E i \in Callable({"avtoolkit"}), style \in Styles, j \in Callable({"avtoolkit"}),
          s \in 0..MaxDur, op \in PathNames, reenc \in BOOLEAN,
          o \in Faults({"mkdtemp", "ffmpeg", "mkdtemp2", "ffmpeg2", "rmtree2"}, 2, TRUE) :
            insert(i, style, j, s, op, reenc, o)

\* Direct calls of ffmpeg(), split and reencode, on handles of the two
\* revisions that have them in this form.
NextOps ==
    \/ \E m \in {"avchopper", "avtoolkit"}, n \in PathNames : Video__init__(m, n)
    \/ \E args \in ArgLists, capture_stdout \in BOOLEAN, ok \in BOOLEAN :
            ffmpeg_call(args, capture_stdout, ok)
    \/ \E i \in Callable({"avtoolkit"}), s \in 0..MaxDur, bp \in PathNames,
          ep \in PathNames, o \in Faults({"ffmpeg"}, 2, FALSE) :
            split(i, s, bp, ep, o)
    \/ \E i \in Callable({"avchopper"}), s \in 0..MaxDur, bp \in PathNames,
          ep \in PathNames, k \in 0..MaxOffset,
          o \in Faults({"mkdtemp", "ffmpeg", "move", "move2"}, 2, TRUE) :
            split_avchopper(i, s, bp, ep, k, o)
    \/ \E i \in Callable({"avtoolkit"}), op \in PathNames, o \in Faults({"ffmpeg"}, 1, FALSE) :
            reencode(i, op, o)
    \/ \E i \in Callable({"avchopper"}), op \in PathNames,
          o \in Faults({"mkdtemp", "ffmpeg", "move"}, 1, TRUE) :
            reencode_avchopper(i, op, o)

----------------------------------------------------------------------------
(* Part 4: chains of chainable operations.  The decorator is imported by
   tests/test_toolkit.py from avtoolkit.util, where it is not defined; it is
   modelled from section 4.1 of the specification and from what the two tests
   require of it. *)

\* The intermediate paths a chain can be given: files in self.dirname with
\* the extension self.ext.
InterNames == 1..MaxInter

\* An auto-generated intermediate path is one at which there is no file.
AutoPaths(there) == InterNames \ there

\* The errors the body of a link can raise.
LinkErrors == {MyException, CalledProcessError}

InitChain ==
    chain = [pc |-> "idle", made |-> <<>>, there |-> {}, wrote |-> <<>>,
             result |-> NoOutcome]

Discard_LastOnly(there, made) ==
    IF made = <<>> THEN there ELSE there \ {made[Len(made)]}

\* The files left when every intermediate file in made has been deleted.
Discard(there, made) == there \ {made[k] : k \in 1..Len(made)}

\* Where a link writes: the caller's output_path when it is given, else the
\* intermediate path n.
Target(final, n) == IF final THEN <<"output_path", 0>> ELSE <<"intermediate", n>>

\* The intermediate files made so far, with n when this link made one.
MadeWith(final, n) == IF final THEN chain.made ELSE Append(chain.made, n)
ThereWith(final, n) == IF final THEN chain.there ELSE chain.there \cup {n}

\* A link of the chain returns: vid.test() without output_path, which is
\* given the intermediate path n, or vid.test(output_path=...), which ends
\* the chain.  The file the link read from may be deleted once it is used.
chainable_return(final, n, release) ==
    /\ chain.pc \in {"idle", "running"}
    /\ Len(chain.wrote) < MaxLinks
    /\ final \/ n \in AutoPaths(chain.there)
    /\ chain' = [chain EXCEPT
                    !.pc = IF final THEN "done" ELSE "running",
                    !.made = MadeWith(final, n),
                    !.there = ThereWith(final, n)
                                \ (IF release /\ chain.made # <<>>
                                   THEN {chain.made[Len(chain.made)]} ELSE {}),
                    !.wrote = Append(@, Target(final, n)),
                    !.result = IF final THEN Returned(0) ELSE NoOutcome]
    /\ UNCHANGED <<tvars, vvars, ovars>>

\* A link of the chain raises e: the intermediate files the chain has made
\* are deleted and e goes on to the caller.
chainable_raise(final, n, e) ==
    /\ chain.pc \in {"idle", "running"}
    /\ Len(chain.wrote) < MaxLinks
    /\ final \/ n \in AutoPaths(chain.there)
    /\ chain' = [chain EXCEPT
                    !.pc = "failed",
                    !.made = MadeWith(final, n),
                    !.there = Discard(ThereWith(final, n), MadeWith(final, n)),
                    !.wrote = Append(@, Target(final, n)),
                    !.result = Raised(e)]
    /\ UNCHANGED <<tvars, vvars, ovars>>

NextChain ==
    \/ \E final \in BOOLEAN, n \in InterNames, release \in BOOLEAN :
            chainable_return(final, n, release)
    \/ \E final \in BOOLEAN, n \in InterNames, e \in LinkErrors :
            chainable_raise(final, n, e)

----------------------------------------------------------------------------
(* Specifications *)

Init == InitTempdir /\ InitVideo /\ InitOps /\ InitChain

\* Threads calling tempdir-wrapped operations.
SpecTempdir == Init /\ [][NextTempdir]_vars

\* A caller constructing Video handles and reading their data.
SpecVideo == Init /\ [][NextVideo]_vars

\* A caller constructing Video handles and running media operations.
SpecOps == Init /\ [][NextOps]_vars

\* The values of overlay_duration and limit: not given, or a number of seconds.
Durations == {NoDuration} \cup (0..MaxDur)

\* A caller constructing handles, reading their data and overlaying them.
NextOverlay ==
    \/ \E n \in PathNames : Video__init__("avtoolkit", n)
    \/ \E i \in 1..MaxVideos : DataProbe(i)
    \/ \E i \in Callable({"avtoolkit"}), vid \in VidArgs, s \in 0..MaxDur,
          op \in PathNames, dur \in Durations, m \in Mappings,
          o \in Faults({"ffprobe", "ffmpeg"}, 1, FALSE) :
            overlay(i, vid, s, op, dur, m, o)

\* The same with the overlay of every revision.
NextOverlays ==
    \/ \E m \in Modules, n \in PathNames : Video__init__(m, n)
    \/ \E i \in 1..MaxVideos : DataProbe(i)
    \/ \E i \in Callable({"avtoolkit"}), vid \in VidArgs, s \in 0..MaxDur,
          op \in PathNames, dur \in Durations, m \in Mappings,
          o \in Faults({"ffprobe", "ffmpeg"}, 1, FALSE) :
            overlay(i, vid, s, op, dur, m, o)
    \/ \E i \in Callable({"avchopper"}), vid \in VidArgs, s \in 0..MaxDur,
          op \in PathNames, dur \in Durations, m \in Mappings,
          o \in Faults({"mkdtemp", "ffprobe", "ffmpeg", "move"}, 1, TRUE) :
            overlay_avchopper(i, vid, s, op, dur, m, o)
    \/ \E i \in Callable({"ffchopper", "chopper"}), vid \in VidArgs, s \in 0..MaxDur,
          dur \in Durations, m \in Mappings,
          o \in Faults({"mkdtemp", "ffprobe", "ffmpeg", "ffmpeg2"}, 2, FALSE) :
            overlay_ffchopper(i, vid, s, dur, m, o)

SpecOverlay == Init /\ [][NextOverlay]_vars

SpecOverlays == Init /\ [][NextOverlays]_vars

SpecJoin == Init /\ [][NextJoin]_vars

\* A caller chaining chainable operations.
SpecChain == Init /\ [][NextChain]_vars

Next == NextTempdir \/ NextVideo \/ NextOps \/ NextOverlays \/ NextJoin \/ NextChain

Spec == Init /\ [][Next]_vars

----------------------------------------------------------------------------
(* Properties of the tempdir wrapper *)

\* The caller supplied tmpdir=<dir>.
Supplied(r) == r.kw # NoDir

\* The call made its own directory with mkdtemp.
Managed(r) == r.kw = NoDir /\ r.tmpdir # NoDir

\* The directory that the current call of thread t created is still on the
\* filesystem (a later mkdtemp of another thread may reuse a removed name).
OwnDirExists(t) == inv[t].tmpdir \in dirs /\ owner[inv[t].tmpdir] = t

\* C1 as stated: in every managed call the directory made for it exists from
\* the start of the body until the body has finished, and no longer exists
\* once the call has returned to its caller, by return or by exception.
C1_Original ==
    \A t \in Threads :
        Managed(inv[t]) =>
            /\ inv[t].pc \in {"body", "finally"} => OwnDirExists(t)
            /\ inv[t].pc = "done" => ~OwnDirExists(t)

\* C1 amended: as C1, but the directory is known to be gone only when the
\* removal step itself did not fail; when shutil.rmtree raises, the call ends
\* with that error and the directory is still there.
C1_DirGoneUnlessRmtreeFailed ==
    \A t \in Threads :
        Managed(inv[t]) =>
            /\ inv[t].pc \in {"body", "finally"} => OwnDirExists(t)
            /\ inv[t].pc = "done" /\ inv[t].result.err # RmtreeError
                  => ~OwnDirExists(t)
            /\ inv[t].pc = "done" /\ OwnDirExists(t)
                  => inv[t].result = Raised(RmtreeError)

C1_Witness ==
    \E t \in Threads :
        /\ Managed(inv[t]) /\ inv[t].pc = "done"
        /\ inv[t].bodyOut.kind = "raise"
        /\ inv[t].result.err # RmtreeError
        /\ inv[t].tmpdir \notin dirs

\* C2: the wrapper is transparent: whatever the body returned or raised is
\* what the caller of the wrapped call gets, in both modes.
C2_Transparent ==
    \A t \in Threads :
        inv[t].pc = "done" /\ inv[t].bodies > 0 => inv[t].result = inv[t].bodyOut

\* C3: with a caller-supplied directory the wrapper calls neither mkdtemp nor
\* rmtree, hands the body exactly that directory, the directory exists
\* throughout and after the call, and the call ends with the body's own
\* outcome, also when the same directory was supplied to the previous call.
C3_PassThroughTouchesNothing ==
    \A t \in Threads :
        Supplied(inv[t]) /\ inv[t].pc \in {"body", "finally", "done"} =>
            /\ inv[t].mkdtemps = 0
            /\ inv[t].rmtrees = 0
            /\ inv[t].tmpdir = NoDir
            /\ inv[t].arg = inv[t].kw
            /\ inv[t].kw \in dirs
            /\ inv[t].bodies = 1
            /\ inv[t].pc # "finally"
            /\ inv[t].pc = "done" =>
                  /\ inv[t].result = inv[t].bodyOut
                  /\ inv[t].result.kind \in {"return", "raise"}

C3_Witness ==
    \E t \in Threads :
        /\ Supplied(inv[t]) /\ inv[t].pc = "done"
        /\ inv[t].prev = inv[t].kw
        /\ inv[t].bodyOut.kind = "raise"
        /\ inv[t].kw \in dirs

\* C4: in a managed call shutil.rmtree has not run while the body runs and
\* has run exactly once when the call has ended, whichever way the body left:
\* early return, normal return or exception.
C4_RmtreeExactlyOnce ==
    \A t \in Threads :
        Managed(inv[t]) =>
            /\ inv[t].pc = "body" => inv[t].rmtrees = 0 /\ inv[t].exit = "none"
            /\ inv[t].pc = "finally" =>
                  inv[t].rmtrees = 0 /\ inv[t].exit \in {"early", "normal", "raise"}
            /\ inv[t].pc = "done" =>
                  inv[t].rmtrees = 1 /\ inv[t].exit \in {"early", "normal", "raise"}

C4_Witness ==
    \E a, b \in Threads :
        /\ Managed(inv[a]) /\ inv[a].pc = "done" /\ inv[a].exit = "early"
        /\ Managed(inv[b]) /\ inv[b].pc = "done" /\ inv[b].exit = "raise"
        /\ inv[a].rmtrees = 1 /\ inv[b].rmtrees = 1

\* C5: when mkdtemp fails, the call ends with mkdtemp's error, the body has
\* not been invoked and rmtree has not been called.
C5_MkdtempFailureStopsTheCall ==
    \A t \in Threads :
        inv[t].mkdtemps > 0 /\ inv[t].tmpdir = NoDir =>
            /\ inv[t].pc = "done"
            /\ inv[t].result = Raised(MkdtempError)
            /\ inv[t].bodies = 0
            /\ inv[t].rmtrees = 0
            /\ inv[t].bodyOut = NoOutcome

C5_Witness ==
    \E t \in Threads :
        /\ inv[t].pc = "done" /\ inv[t].mkdtemps = 1 /\ inv[t].tmpdir = NoDir
        /\ inv[t].result = Raised(MkdtempError)

\* C6: when the body raised e, the caller of the wrapped call sees e, also
\* when the removal of the directory failed afterwards.
C6_BodyErrorNotMasked ==
    \A t \in Threads :
        inv[t].pc = "done" /\ inv[t].bodyOut.kind = "raise"
            => inv[t].result = inv[t].bodyOut

\* C7: when the body returned v, the caller of the wrapped call gets v, also
\* when the removal of the directory failed afterwards.
C7_ResultNotSuppressed ==
    \A t \in Threads :
        inv[t].pc = "done" /\ inv[t].bodyOut.kind = "return"
            => inv[t].result = inv[t].bodyOut

\* C8: two managed calls whose bodies have started and whose cleanup has not
\* yet run never hold the same directory.
C8_DistinctWorkspaces ==
    \A a, b \in Threads :
        /\ a # b
        /\ Managed(inv[a]) /\ inv[a].pc \in {"body", "finally"}
        /\ Managed(inv[b]) /\ inv[b].pc \in {"body", "finally"}
        => inv[a].arg # inv[b].arg

C8_Witness ==
    \E a, b \in Threads :
        /\ a # b
        /\ Managed(inv[a]) /\ inv[a].pc = "body"
        /\ Managed(inv[b]) /\ inv[b].pc = "body"
        /\ inv[a].arg # inv[b].arg

----------------------------------------------------------------------------
(* Properties of the Video handle *)

\* C9: every handle was constructed from a path at which a file existed, and
\* a construction from a path with no file ended in IOError, in all four
\* revisions.
C9_MissingFileRejected ==
    /\ \A i \in 1..Len(videos) : videos[i].existed
    /\ ctor.result # "none" /\ ~ctor.existed => ctor.result = "IOError"

\* C10 as stated: a handle that was never read has run no probe, and a handle
\* that was read, however often, has run the probe exactly once.
C10_Original ==
    \A i \in 1..Len(videos) :
        /\ videos[i].reads = 0 => videos[i].probes = 0
        /\ videos[i].reads >= 1 => videos[i].probes = 1

\* C10 amended: construction runs no probe; the first read runs it once; once
\* a probe has succeeded its mapping (empty or not) is cached and no later
\* read runs the probe, so a handle has at most one successful probe; a read
\* whose probe raises caches nothing and the next read runs the probe again.
C10_ProbedOnceUnlessProbeFails ==
    \A i \in 1..Len(videos) :
        /\ videos[i].reads = 0 => videos[i].probes = 0 /\ videos[i].data = None
        /\ videos[i].reads = 1 => videos[i].probes = 1
        /\ videos[i].probes =
              videos[i].probeFails + (IF videos[i].data = None THEN 0 ELSE 1)
        /\ videos[i].probeFails = 0 => videos[i].probes <= 1
        /\ videos[i].data = None => videos[i].probeFails = videos[i].reads

C10_Witness ==
    \E i \in 1..Len(videos) :
        /\ videos[i].data = "{}"
        /\ videos[i].reads >= 2
        /\ videos[i].probes = 1

----------------------------------------------------------------------------
(* Properties of the media operations *)

Succeeded == last.result.kind = "return"
FailedOp == last.result.kind = "raise"

\* Output n holds something the operation wrote.
Wrote(n) == n \in mediaFiles /\ n \notin last.thereWas

(* C14: a call of avtoolkit's ffmpeg(args, capture_stdout) starts exactly one
   process, with the arguments FFMPEG_BIN, "-y" and then args; it uses the
   capturing runner and returns the decoded output when capture_stdout is
   true, the run-to-completion runner otherwise. *)
C14_ArgvHasOverwriteFlag ==
    last.op = "ffmpeg" =>
        /\ Len(last.argvs) = 1
        /\ last.argvs[1] = <<FFMPEG_BIN, "-y">> \o last.given
        /\ last.runners[1] = IF last.style = "capture" THEN "check_output_decoded"
                             ELSE "check_call"
        /\ (last.style = "capture" /\ Succeeded) => last.text = decode(Stdout)

(* C12: an operation that fails leaves none of its output paths written, and
   one that succeeds leaves every output path holding a complete video; in
   particular split never leaves beginning_path written and end_path
   missing. *)
C12_NoPartialSuccess ==
    last.op \in {"reencode", "split", "overlay", "concatenate", "insert"} =>
        /\ FailedOp => \A k \in 1..Len(last.outs) : ~Wrote(last.outs[k])
        /\ Succeeded => \A k \in 1..Len(last.outs) :
                            /\ last.outs[k] \in mediaFiles
                            /\ content[last.outs[k]] # Partial

\* The handle Video(path) of avtoolkit and avchopper holds for file n.
AbsStr(n) == "/cwd/" \o PathStr(n)

(* C17: a split at s of a video of duration D, 0 < s < D, that returns, gives
   the handles of beginning_path and end_path in this order; the first file
   holds the first s seconds and the second the seconds from s + k on, where k
   is end_offset_seconds in avchopper and 0 in avtoolkit (so that without an
   offset the parts are s and D - s long and together the whole video). *)
C17_SplitParts ==
    (/\ last.op = "split" /\ Succeeded
     /\ 0 < last.seconds /\ last.seconds < Len(last.selfWas)) =>
        LET D == Len(last.selfWas)
            a == last.outs[1]
            b == last.outs[2]
        IN  /\ last.handles = <<AbsStr(a), AbsStr(b)>>
            /\ content[a] = SubSeq(last.selfWas, 1, last.seconds)
            /\ content[b] = SubSeq(last.selfWas, last.seconds + last.offset + 1, D)
            /\ last.offset = 0 =>
                  /\ Len(content[a]) = last.seconds
                  /\ Len(content[b]) = D - last.seconds
                  /\ content[a] \o content[b] = last.selfWas

C17_Witness ==
    /\ last.op = "split" /\ Succeeded
    /\ 0 < last.seconds /\ last.seconds < Len(last.selfWas)
    /\ last.module = "avtoolkit"
    /\ Len(content[last.outs[2]]) > 0

(* C11, overlay in avtoolkit *)

Steps == {last.trace[k] : k \in 1..Len(last.trace)}

\* An overlay in avtoolkit of a handle.
OverlayOfHandle ==
    last.op = "overlay" /\ last.module = "avtoolkit" /\ last.vid.kind = "handle"

\* The overlaid input is a handle whose metadata, cached or probed by the
\* operation, has no duration.
NoInherentDuration ==
    OverlayOfHandle /\ last.vidNow \in {"{}", "{streams:[{}]}"}

\* The claim as stated: the call fails before any external process.
C11_Original ==
    /\ (NoInherentDuration /\ last.given[2] = NoDuration) =>
          /\ last.result = Raised(AttributeError)
          /\ last.argvs = <<>>
          /\ ~Wrote(last.outs[1])
    /\ (NoInherentDuration /\ last.given[2] \notin {NoDuration, 0}) =>
          "ffmpeg" \in Steps

(* C11: overlay in avtoolkit of a handle whose metadata has no duration, with
   no overlay_duration (or one of 0), raises AttributeError without starting
   ffmpeg and without writing output_path; the only process it may start is
   the one ffprobe run that fetches the metadata, when the handle had none
   cached.  With an overlay_duration other than 0 the overlay of any handle
   starts ffmpeg and no ffprobe. *)
C11_FailsBeforeTranscode ==
    /\ (NoInherentDuration /\ last.given[2] \in {NoDuration, 0}) =>
          /\ last.result = Raised(AttributeError)
          /\ "ffmpeg" \notin Steps
          /\ last.argvs = IF DataUnset(last.vidWas)
                          THEN <<(<<FFPROBE_BIN, "-print_format", "json", "-show_streams",
                                    SourceStr(videos[last.vid.j].source)>>)>>
                          ELSE <<>>
          /\ ~Wrote(last.outs[1])
    /\ (OverlayOfHandle /\ last.given[2] \notin {NoDuration, 0}) =>
          /\ "ffmpeg" \in Steps
          /\ Len(last.argvs) = 1 /\ last.argvs[1][1] = FFMPEG_BIN

C11_Witness ==
    /\ NoInherentDuration /\ last.given[2] = NoDuration
    /\ DataUnset(last.vidWas)
    /\ last.result = Raised(AttributeError)

(* C19: overlay given a path string for vid constructs Video(path) as its
   first step, before it reads metadata, creates a temporary directory or
   starts a process; when that construction fails its error is the result. *)
C19_StringBecomesVideoFirst ==
    (last.op = "overlay" /\ last.vid.kind = "str") =>
        /\ Len(last.trace) > 0 /\ last.trace[1] = "Video"
        /\ (CtorChecksPath(last.module) /\ last.vid.n \notin last.thereWas) =>
              /\ last.result = Raised(IOError)
              /\ last.trace = <<"Video">>

(* C20: when an operation has returned or failed, none of the temporary
   directories it created exists. *)
C20_WorkspacesRemoved ==
    last.op # "none" => last.made \cap dirs = {}

(* C13, C15, C18: concatenate and insert in avtoolkit *)

ValueError == "ValueError"

(* C13: concatenate with neither before nor after raises ValueError, starts
   no ffmpeg and does not write output_path. *)
C13_NothingToConcatenate ==
    (last.op = "concatenate" /\ last.given = <<(<<>>), (<<>>)>>) =>
        /\ last.result = Raised(ValueError)
        /\ "ffmpeg" \notin Steps
        /\ ~Wrote(last.outs[1])

(* C15: a wrapped method called on a handle, vid.method(...), once its
   workspace is made, runs its body (with tmpdir bound to the workspace and
   self to the handle) and does not fail on the binding of its arguments. *)
C15_BoundMethodRunsBody ==
    (/\ last.op \in {"concatenate", "insert", "reencode", "split", "overlay"}
     /\ last.style = "method"
     /\ last.made # {}) =>
        /\ "body" \in Steps
        /\ "TypeError" \notin Steps

\* The errors that come from outside the program.
ExternalErrors == {CalledProcessError, MkdtempError, RmtreeError, IOError}

(* C18: unless a step fails for an outside reason, self.insert(vid, s,
   output_path) returns the handle of output_path, and output_path holds the
   part of self before s, then all of vid, then the part of self from s
   on. *)
C18_InsertTimeline ==
    (last.op = "insert" /\ last.result.err \notin ExternalErrors) =>
        /\ Succeeded
        /\ last.handles = <<AbsStr(last.outs[1])>>
        /\ content[last.outs[1]] =
              SubSeq(last.selfWas, 1, Min(last.seconds, Len(last.selfWas)))
                  \o last.given
                  \o SubSeq(last.selfWas, Min(last.seconds, Len(last.selfWas)) + 1,
                            Len(last.selfWas))

(* C16, chains of chainable operations *)

\* The intermediate files of the chain that exist.
Leftover == {chain.made[k] : k \in 1..Len(chain.made)} \cap chain.there

(* C16: in a chain, every link called without output_path writes to an
   intermediate path generated for it; when a link raises, none of the
   intermediate files the chain created exists once the error has reached
   the caller, and the caller sees the error the link raised. *)
C16_ChainCleansUp ==
    /\ \A k \in 1..Len(chain.made) : chain.made[k] \in InterNames
    /\ \A k \in 1..Len(chain.wrote) :
          k < Len(chain.wrote) => chain.wrote[k][1] = "intermediate"
    /\ chain.pc = "failed" =>
          /\ Leftover = {}
          /\ chain.result.kind = "raise" /\ chain.result.err \in LinkErrors

C16_Witness ==
    /\ chain.pc = "failed"
    /\ Len(chain.made) >= 2
    /\ chain.result = Raised(MyException)

(* C22, concurrent managed invocations *)

\* The managed invocations whose body has started and whose cleanup has not
\* ended yet.
Running == {t \in Threads : Managed(inv[t]) /\ inv[t].pc \in {"body", "finally"}}

\* The directory of every running managed invocation is there, and is its own.
RunningDirsKept ==
    \A t \in Running :
        /\ OwnDirExists(t)
        /\ \A u \in Running : inv[u].tmpdir = inv[t].tmpdir => u = t

\* Thread t's cleanup is the step being taken.
CleansUp(t) == inv[t].pc = "finally" /\ inv'[t].pc = "done"

\* A step removes a managed directory, or entries of one, only as the cleanup
\* of the invocation that made it.
OnlyOwnRemoved ==
    \A d \in TempDirs :
        (d \in dirs /\ (d \notin dirs' \/ ~(files[d] \subseteq files'[d])))
            => \E t \in Threads : CleansUp(t) /\ inv[t].tmpdir = d /\ owner[d] = t

\* No call is in progress.
AllFinished == \A t \in Threads : inv[t].pc \in {"idle", "done"}

\* C22 as stated: the cleanup of one invocation removes only the directory
\* that invocation created, every other invocation's directory stays until
\* its own body has finished, and when all invocations have finished no
\* managed directory remains.
C22_Original ==
    /\ []RunningDirsKept
    /\ [][OnlyOwnRemoved]_vars
    /\ [](AllFinished => dirs \cap TempDirs = {})

\* C22 amended: as C22, but a managed directory is known to be gone only when
\* its own removal did not fail: a cleanup that ends without rmtree's error
\* has removed its directory, and a directory that outlives its cleanup is one
\* whose rmtree raised.
C22_OnlyOwnDirRemoved ==
    /\ []RunningDirsKept
    /\ [][OnlyOwnRemoved]_vars
    /\ [][\A t \in Threads :
             CleansUp(t) =>
                 /\ inv'[t].result.err # RmtreeError => inv[t].tmpdir \notin dirs'
                 /\ inv[t].tmpdir \in dirs' => inv'[t].result = Raised(RmtreeError)]_vars

C22_Witness ==
    \E a, b \in Threads :
        /\ a # b
        /\ Managed(inv[a]) /\ inv[a].pc = "done" /\ inv[a].rmtrees = 1
        /\ inv[a].result.err # RmtreeError /\ inv[a].tmpdir \notin dirs
        /\ b \in Running /\ inv[b].tmpdir # inv[a].tmpdir
        /\ OwnDirExists(b) /\ files[inv[b].tmpdir] # {}

(* C21, a wrapped operation calling a wrapped operation *)

\* Moment m of the latest operation is the time just before its step m; the
\* last moment is its end.
Moments == 1..Len(last.hist)

\* The managed directories at moment m.
ManagedAt(m) == last.hist[m].dirs \cap TempDirs

\* The directories of the managed invocations that are under way after k
\* steps, the innermost last: a mkdtemp that made a directory starts one, the
\* rmtree of its wrapper ends the innermost.
RECURSIVE Frames(_)
Frames(k) ==
    IF k = 0 THEN <<>>
    ELSE LET f == Frames(k - 1)
             new == last.hist[k + 1].dirs \ last.hist[k].dirs
         IN  IF last.trace[k] = "mkdtemp" /\ new # {}
             THEN Append(f, CHOOSE d \in new : TRUE)
             ELSE IF last.trace[k] = "rmtree" /\ f # <<>>
             THEN SubSeq(f, 1, Len(f) - 1)
             ELSE f

LiveAt(m) == {Frames(m - 1)[j] : j \in 1..Len(Frames(m - 1))}

\* The steps at which insert's call of concatenate has got its directory.
InnerEntered ==
    {k \in 1..Len(last.trace) :
        /\ k >= 3
        /\ last.trace[k - 2] = "concatenate" /\ last.trace[k - 1] = "mkdtemp"
        /\ last.trace[k] \in {"body", "TypeError"}}

\* The inner call has a directory of its own beside the outer one.
InnerDistinct ==
    \A k \in InnerEntered : Len(Frames(k - 1)) = 2 /\ Cardinality(ManagedAt(k)) = 2

\* The cleanup of an inner invocation leaves the other directories and what
\* is in them.
InnerCleanupLocal ==
    \A k \in 1..Len(last.trace) :
        last.trace[k] = "rmtree" /\ Len(Frames(k - 1)) >= 2 =>
            LET top == Frames(k - 1)[Len(Frames(k - 1))]
            IN  /\ last.hist[k].dirs \ {top} \subseteq last.hist[k + 1].dirs
                /\ last.hist[k].names \ Under(top, TmpNames)
                      \subseteq last.hist[k + 1].names

\* C21 as stated: the inner call has a workspace distinct from the outer
\* one, the inner cleanup removes nothing of the outer workspace, and at every
\* moment the managed directories that exist are those of the managed
\* invocations under way (so the inner one is gone before the outer one).
C21_Original ==
    /\ InnerDistinct
    /\ InnerCleanupLocal
    /\ \A m \in Moments : ManagedAt(m) = LiveAt(m)

\* C21 amended: as C21, but a managed directory is known to be gone only
\* when its removal did not fail: the directories of the invocations under
\* way always exist, and any other managed directory that exists is left by
\* an rmtree that raised, whose error is how the operation ends.
C21_NestedWorkspaces ==
    /\ InnerDistinct
    /\ InnerCleanupLocal
    /\ \A m \in Moments :
          /\ LiveAt(m) \subseteq ManagedAt(m)
          /\ ManagedAt(m) # LiveAt(m) => last.result = Raised(RmtreeError)

C21_Witness ==
    /\ last.op = "insert"
    /\ InnerEntered # {}
    /\ Cardinality(last.made) = 2
    /\ \E k \in InnerEntered : last.hist[k].names # {}
    /\ ManagedAt(Len(last.hist)) = {}
    /\ last.result.err # RmtreeError

====
